---- MODULE Spec2Model ----
(***************************************************************************)
(* Model of the virtual-filesystem path helpers of utils.py:               *)
(*   vfs_construct_path(a, *p)  -- POSIX-style join                        *)
(*   vfs_normpath(path)         -- POSIX-style normalisation               *)
(* A string is a sequence of one-character strings.  The two functions     *)
(* are modelled twice over the same branch operators: as pure operators    *)
(* (vfs_construct_path, vfs_normpath) and as a step machine that runs the  *)
(* join loop and then the normaliser's scan loop one iteration at a time.  *)
(***************************************************************************)
EXTENDS Naturals, Sequences, FiniteSets

VARIABLES a, p, path, i, pc, initial_slashes, comps, j, new_comps, out, raised

vars == <<a, p, path, i, pc, initial_slashes, comps, j, new_comps, out, raised>>

(* ------------------------------ bounds --------------------------------- *)

\* longest path handed to the normaliser on its own (no extra segments)
MaxPathLen == 7
\* total number of characters of a base together with its segments
MaxJoinLen == 4
\* largest number of segments joined onto a base
MaxSegs == 2

Alphabet == {"/", ".", "a"}

(* ------------------------- string primitives --------------------------- *)

Slash == <<"/">>
Dot == <<".">>
DotDot == <<".", ".">>

Last(s) == s[Len(s)]
Front(s) == SubSeq(s, 1, Len(s) - 1)

\* str.startswith(pre)
StartsWith(s, pre) ==
    /\ Len(pre) <= Len(s)
    /\ SubSeq(s, 1, Len(pre)) = pre

\* str.endswith(suf)
EndsWith(s, suf) ==
    /\ Len(suf) <= Len(s)
    /\ SubSeq(s, Len(s) - Len(suf) + 1, Len(s)) = suf

RECURSIVE SplitFrom(_, _, _, _)
SplitFrom(s, k, cur, acc) ==
    IF k > Len(s) THEN Append(acc, cur)
    ELSE IF s[k] = "/" THEN SplitFrom(s, k + 1, <<>>, Append(acc, cur))
    ELSE SplitFrom(s, k + 1, Append(cur, s[k]), acc)

\* path.split('/'): n separators give n + 1 components, empty ones included
Split(s) == SplitFrom(s, 1, <<>>, <<>>)

RECURSIVE SlashJoin(_)
\* slash.join(comps)
SlashJoin(cs) ==
    IF cs = <<>> THEN <<>>
    ELSE IF Len(cs) = 1 THEN cs[1]
    ELSE cs[1] \o Slash \o SlashJoin(Tail(cs))

\* slash * n
Slashes(n) == [k \in 1..n |-> "/"]

(* --------------------------- vfs_construct_path ------------------------ *)

IsAbsolute_Never(b) == FALSE

\* b.startswith('/')
IsAbsolute(b) == StartsWith(b, Slash)

AppendsDirectly_NoEmptyCheck(pth) == EndsWith(pth, Slash)

\* path == '' or path.endswith('/')
AppendsDirectly(pth) == pth = <<>> \/ EndsWith(pth, Slash)

JoinStep_AlwaysSlash(pth, b) ==
    IF IsAbsolute(b) THEN b ELSE pth \o Slash \o b

\* one iteration of the loop over p
JoinStep(pth, b) ==
    IF IsAbsolute(b) THEN b
    ELSE IF AppendsDirectly(pth) THEN pth \o b
    ELSE pth \o Slash \o b

RECURSIVE JoinFrom(_, _, _)
JoinFrom(pth, segs, k) ==
    IF k > Len(segs) THEN pth ELSE JoinFrom(JoinStep(pth, segs[k]), segs, k + 1)

vfs_construct_path(base, segs) == JoinFrom(base, segs, 1)

(* ------------------------------ vfs_normpath --------------------------- *)

InitialSlashes_NoTriple(pth) ==
    IF ~StartsWith(pth, Slash) THEN 0
    ELSE IF StartsWith(pth, <<"/", "/">>) THEN 2
    ELSE 1

\* initial_slashes: False (0), True (1) or 2
InitialSlashes(pth) ==
    IF ~StartsWith(pth, Slash) THEN 0
    ELSE IF StartsWith(pth, <<"/", "/">>) /\ ~StartsWith(pth, <<"/", "/", "/">>) THEN 2
    ELSE 1

IsSkip_EmptyOnly(comp) == comp = <<>>

\* comp in ('', '.')
IsSkip(comp) == comp \in {<<>>, Dot}

ShouldAppend_NoDotDotChain(nc, comp, slashes) ==
    \/ comp # DotDot
    \/ (slashes = 0 /\ nc = <<>>)

\* comp != '..' or (not initial_slashes and not new_comps) or
\* (new_comps and new_comps[-1] == '..')
ShouldAppend(nc, comp, slashes) ==
    \/ comp # DotDot
    \/ (slashes = 0 /\ nc = <<>>)
    \/ (nc # <<>> /\ Last(nc) = DotDot)

ShouldPop_Always(nc) == TRUE

\* elif new_comps:
ShouldPop(nc) == nc # <<>>

\* one iteration of the loop over comps (the pop is only taken on a
\* non-empty list here; the step machine models list.pop's IndexError)
NormComp(nc, comp, slashes) ==
    IF IsSkip(comp) THEN nc
    ELSE IF ShouldAppend(nc, comp, slashes) THEN Append(nc, comp)
    ELSE IF ShouldPop(nc) /\ nc # <<>> THEN Front(nc)
    ELSE nc

RECURSIVE NormScan(_, _, _, _)
NormScan(nc, cs, k, slashes) ==
    IF k > Len(cs) THEN nc
    ELSE NormScan(NormComp(nc, cs[k], slashes), cs, k + 1, slashes)

NormFinish_NoDot(nc, slashes) == Slashes(slashes) \o SlashJoin(nc)

\* path = slash.join(comps); prepend the initial slashes; return path or dot
NormFinish(nc, slashes) ==
    LET joined == Slashes(slashes) \o SlashJoin(nc)
    IN  IF joined = <<>> THEN Dot ELSE joined

vfs_normpath(pth) ==
    IF pth = <<>> THEN Dot
    ELSE NormFinish(NormScan(<<>>, Split(pth), 1, InitialSlashes(pth)),
                    InitialSlashes(pth))

(* ------------------------------- inputs -------------------------------- *)

Strs(n) == UNION {[1..k -> Alphabet] : k \in 0..n}

RECURSIVE SegLists(_, _)
\* the lists of at most k segments with at most budget characters in total
SegLists(budget, k) ==
    IF k = 0 THEN {<<>>}
    ELSE {<<>>} \cup
         UNION {{<<s>> \o rest : rest \in SegLists(budget - Len(s), k - 1)} :
                s \in Strs(budget)}

\* the paths the documentation of the normaliser singles out
ExamplePaths ==
    { <<"a", "/", "/", "b">>,
      <<"a", "/", ".", "/", "b", "/", ".", ".", "/", "c">>,
      <<"/", ".", ".", "/", "a">>,
      <<".", ".", "/", "a">>,
      <<"/", "/", "a", "/", "b">>,
      <<"/", "/", "/", "/", "a">> }

\* the joins the documentation singles out
ExampleJoins ==
    { << <<"a">>, << <<"b">>, <<"c">> >> >>,
      << <<"a", "/">>, << <<"b">> >> >>,
      << <<"a">>, << <<"/", "b">> >> >>,
      << <<"a", "/", "b">>, << <<".", ".", "/", "c">>, <<".", "/", "d">> >> >> }

(* ----------------------------- step machine ---------------------------- *)

Init ==
    /\ \/ a \in Strs(MaxPathLen) \cup ExamplePaths /\ p = <<>>
       \/ \E base \in Strs(MaxJoinLen) :
             a = base /\ p \in SegLists(MaxJoinLen - Len(base), MaxSegs)
       \/ \E ex \in ExampleJoins : a = ex[1] /\ p = ex[2]
    /\ path = a
    /\ i = 1
    /\ pc = "join"
    /\ initial_slashes = 0
    /\ comps = <<>>
    /\ j = 1
    /\ new_comps = <<>>
    /\ out = <<>>
    /\ raised = FALSE

normVars == <<initial_slashes, comps, j, new_comps, out, raised>>

\* if b.startswith('/'): path = b
JoinAbsolute ==
    /\ pc = "join" /\ i <= Len(p)
    /\ IsAbsolute(p[i])
    /\ path' = JoinStep(path, p[i])
    /\ i' = i + 1
    /\ UNCHANGED <<a, p, pc, normVars>>

\* elif path == '' or path.endswith('/'): path += b
JoinDirect ==
    /\ pc = "join" /\ i <= Len(p)
    /\ ~IsAbsolute(p[i]) /\ AppendsDirectly(path)
    /\ path' = JoinStep(path, p[i])
    /\ i' = i + 1
    /\ UNCHANGED <<a, p, pc, normVars>>

\* else: path += '/' + b
JoinSlash ==
    /\ pc = "join" /\ i <= Len(p)
    /\ ~IsAbsolute(p[i]) /\ ~AppendsDirectly(path)
    /\ path' = JoinStep(path, p[i])
    /\ i' = i + 1
    /\ UNCHANGED <<a, p, pc, normVars>>

\* return path
JoinReturn ==
    /\ pc = "join" /\ i > Len(p)
    /\ pc' = "joined"
    /\ UNCHANGED <<a, p, path, i, normVars>>

\* if path == '': return dot
NormEmpty ==
    /\ pc = "joined" /\ path = <<>>
    /\ out' = Dot
    /\ pc' = "done"
    /\ UNCHANGED <<a, p, path, i, initial_slashes, comps, j, new_comps, raised>>

\* initial_slashes, comps = path.split('/'), new_comps = []
NormEnter ==
    /\ pc = "joined" /\ path # <<>>
    /\ initial_slashes' = InitialSlashes(path)
    /\ comps' = Split(path)
    /\ new_comps' = <<>>
    /\ j' = 1
    /\ pc' = "scan"
    /\ UNCHANGED <<a, p, path, i, out, raised>>

\* if comp in ('', '.'): continue
NormSkip ==
    /\ pc = "scan" /\ j <= Len(comps)
    /\ IsSkip(comps[j])
    /\ j' = j + 1
    /\ UNCHANGED <<a, p, path, i, pc, initial_slashes, comps, new_comps, out, raised>>

\* new_comps.append(comp)
NormAppend ==
    /\ pc = "scan" /\ j <= Len(comps)
    /\ ~IsSkip(comps[j])
    /\ ShouldAppend(new_comps, comps[j], initial_slashes)
    /\ new_comps' = Append(new_comps, comps[j])
    /\ j' = j + 1
    /\ UNCHANGED <<a, p, path, i, pc, initial_slashes, comps, out, raised>>

\* elif new_comps: new_comps.pop()   (list.pop raises IndexError when empty)
NormPop ==
    /\ pc = "scan" /\ j <= Len(comps)
    /\ ~IsSkip(comps[j])
    /\ ~ShouldAppend(new_comps, comps[j], initial_slashes)
    /\ ShouldPop(new_comps)
    /\ IF new_comps = <<>>
       THEN /\ raised' = TRUE
            /\ pc' = "raised"
            /\ UNCHANGED <<new_comps, j>>
       ELSE /\ new_comps' = Front(new_comps)
            /\ j' = j + 1
            /\ UNCHANGED <<raised, pc>>
    /\ UNCHANGED <<a, p, path, i, initial_slashes, comps, out>>

\* neither branch taken: '..' above the root is dropped
NormDrop ==
    /\ pc = "scan" /\ j <= Len(comps)
    /\ ~IsSkip(comps[j])
    /\ ~ShouldAppend(new_comps, comps[j], initial_slashes)
    /\ ~ShouldPop(new_comps)
    /\ j' = j + 1
    /\ UNCHANGED <<a, p, path, i, pc, initial_slashes, comps, new_comps, out, raised>>

\* comps = new_comps; join; prepend slashes; return path or dot
NormReturn ==
    /\ pc = "scan" /\ j > Len(comps)
    /\ out' = NormFinish(new_comps, initial_slashes)
    /\ pc' = "done"
    /\ UNCHANGED <<a, p, path, i, initial_slashes, comps, j, new_comps, raised>>

Next ==
    \/ JoinAbsolute
    \/ JoinDirect
    \/ JoinSlash
    \/ JoinReturn
    \/ NormEmpty
    \/ NormEnter
    \/ NormSkip
    \/ NormAppend
    \/ NormPop
    \/ NormDrop
    \/ NormReturn

Spec == Init /\ [][Next]_vars

\* a call runs to its return: the interpreter never stops in mid-function
FairSpec == Spec /\ WF_vars(Next)

(* ------------------------- helpers of the claims ----------------------- *)

Range(s) == {s[k] : k \in 1..Len(s)}

RECURSIVE LeadingSlashCount(_)
LeadingSlashCount(s) ==
    IF s = <<>> \/ Head(s) # "/" THEN 0 ELSE 1 + LeadingSlashCount(Tail(s))

Chars == Alphabet \cup {"b", "c", "d"}

IsString(s) == s \in Seq(Chars)

Returned == pc = "done"

P_a == <<"a">>
P_b == <<"b">>
P_a_c == <<"a", "/", "c">>
P_a_b == <<"a", "/", "b">>
P_up_a == <<".", ".", "/", "a">>
P_root_a == <<"/", "a">>
P_root_b == <<"/", "b">>
P_a_up_up == <<"a", "/", ".", ".", "/", ".", ".">>

(* ------------------------------- claims -------------------------------- *)

\* C1: vfs_normpath is idempotent: normalising a returned path again gives
\* the same path, and the same holds of the function applied twice to the
\* input.
C1_Idempotent ==
    Returned =>
        /\ vfs_normpath(out) = out
        /\ vfs_normpath(vfs_normpath(path)) = vfs_normpath(path)
        /\ out = vfs_normpath(path)

C1_Witness ==
    /\ Returned
    /\ StartsWith(path, <<"/", "/">>)
    /\ EndsWith(path, Slash)
    /\ DotDot \in Range(comps)
    /\ out # path

\* C2: for a non-empty path the number of leading slashes of the result is
\* 0 when the input has none, 2 when it has exactly two, and 1 when it has
\* one or at least three.
C2_LeadingSlashes ==
    (Returned /\ path # <<>>) =>
        LET n == LeadingSlashCount(path)
        IN  /\ LeadingSlashCount(out) = (IF n = 0 THEN 0 ELSE IF n = 2 THEN 2 ELSE 1)
            /\ (path = <<"/", "/">> => out = <<"/", "/">>)
            /\ (path = <<"/", "/", "a", "/", "b">> => out = path)
            /\ (path = <<"/", "/", "/">> => out = Slash)
            /\ (path = <<"/", "/", "/", "/", "a">> => out = P_root_a)

C2_Witness ==
    /\ Returned
    /\ LeadingSlashCount(path) = 4
    /\ LeadingSlashCount(out) = 1
    /\ Len(out) > 1

\* the three ways a '..' component is handled by one iteration of the scan
DotDotCases ==
    (pc = "scan" /\ j <= Len(comps) /\ comps[j] = DotDot) =>
        /\ j' = j + 1
        /\ IF new_comps # <<>> /\ Last(new_comps) # DotDot
           THEN new_comps' = Front(new_comps)
           ELSE IF \/ (~StartsWith(path, Slash) /\ new_comps = <<>>)
                   \/ (new_comps # <<>> /\ Last(new_comps) = DotDot)
           THEN new_comps' = Append(new_comps, DotDot)
           ELSE /\ StartsWith(path, Slash)
                /\ new_comps = <<>>
                /\ new_comps' = new_comps

\* C3: a '..' component pops the last output entry when there is one that
\* is not '..'; else it is appended when the path is relative and the output
\* is empty or the last entry is '..'; else (absolute, empty output) it is
\* dropped.  'a/./b/../c' -> 'a/c', '../a' -> '../a', '/../a' -> '/a'.
C3_DotDot ==
    /\ [][DotDotCases]_vars
    /\ [](Returned =>
            /\ (path = <<"a", "/", ".", "/", "b", "/", ".", ".", "/", "c">> => out = P_a_c)
            /\ (path = P_up_a => out = P_up_a)
            /\ (path = <<"/", ".", ".", "/", "a">> => out = P_root_a))

C3_Witness ==
    /\ Returned
    /\ path = P_a_up_up
    /\ out = DotDot

\* C4: the result is never empty; it is '.' exactly for the empty input and
\* for relative inputs whose components all collapse; an absolute input
\* whose components all collapse gives '/' or '//'.
C4_NeverEmpty ==
    Returned =>
        /\ out # <<>>
        /\ out = Dot <=> (path = <<>> \/ (~StartsWith(path, Slash) /\ new_comps = <<>>))
        /\ (StartsWith(path, Slash) /\ new_comps = <<>>) => out \in {Slash, <<"/", "/">>}

C4_Witness ==
    /\ Returned
    /\ path = <<"a", "/", ".", ".">>
    /\ out = Dot

\* one iteration of the join on a segment that is not absolute
RelativeSegmentStep ==
    (pc = "join" /\ i <= Len(p) /\ ~StartsWith(p[i], Slash)) =>
        IF path = <<>> \/ Last(path) = "/"
        THEN path' = path \o p[i]
        ELSE path' = path \o Slash \o p[i]

\* C5: the join starts from the base and appends each relative segment
\* directly when the path is empty or ends with '/', and after exactly one
\* '/' otherwise; no segments give the base unchanged, and segment content
\* is kept verbatim.  join('a','b','c') = 'a/b/c', join('a/','b') = 'a/b'.
C5_Join ==
    /\ [][RelativeSegmentStep]_vars
    /\ []((pc = "join" /\ i = 1) => path = a)
    /\ [](pc = "joined" =>
            /\ (p = <<>> => path = a)
            /\ (p # <<>> => EndsWith(path, Last(p)))
            /\ ((a = P_a /\ p = <<P_b, <<"c">> >>) => path = <<"a", "/", "b", "/", "c">>)
            /\ ((a = <<"a", "/">> /\ p = <<P_b>>) => path = P_a_b))

C5_Witness ==
    /\ pc = "joined"
    /\ a = <<"a", "/">>
    /\ p = << <<".", ".">>, <<>> >>
    /\ path = <<"a", "/", ".", ".", "/">>

\* C6: an absolute segment discards what was accumulated before it: the
\* join equals the join that starts at that segment.
C6_AbsoluteResets ==
    pc = "joined" =>
        /\ \A k \in 1..Len(p) :
              StartsWith(p[k], Slash) =>
                  path = vfs_construct_path(p[k], SubSeq(p, k + 1, Len(p)))
        /\ ((a = P_a /\ p = <<P_root_b>>) => path = P_root_b)

C6_Witness ==
    /\ pc = "joined"
    /\ a = P_a
    /\ p = <<Dot, P_root_a>>
    /\ path = P_root_a

C8_Composition ==
    (a = P_a_b /\ p = << <<".", ".", "/", "c">>, <<".", "/", "d">> >>) =>
        /\ pc \in {"joined", "scan", "done"} =>
              path = <<"a", "/", "b", "/", ".", ".", "/", "c", "/", ".", "/", "d">>
        /\ Returned => out = <<"a", "/", "c", "/", "d">>

C8_Witness ==
    /\ Returned
    /\ a = P_a_b
    /\ p = << <<".", ".", "/", "c">>, <<".", "/", "d">> >>
    /\ out = <<"a", "/", "c", "/", "d">>

Canonical(o) ==
    \/ o = Dot
    \/ LET k == LeadingSlashCount(o)
           rest == SubSeq(o, k + 1, Len(o))
       IN  /\ k <= 2
           /\ IF rest = <<>>
              THEN o \in {Slash, <<"/", "/">>}
              ELSE \A c \in Range(Split(rest)) : c # <<>> /\ c # Dot

\* C9: every result is canonical: after at most two leading slashes its
\* components are neither empty nor '.', unless the result is '/', '//' or
\* '.'.  'a//b' -> 'a/b'.
C9_Canonical ==
    Returned =>
        /\ Canonical(out)
        /\ (path = <<"a", "/", "/", "b">> => out = P_a_b)

C9_Witness ==
    /\ Returned
    /\ path = <<"/", "/", "/", "a", "/", "/", ".">>
    /\ out = P_root_a

\* C10: normalising the base before a join of one segment does not change
\* the normalised result.
C10_NormalizedBase ==
    (Returned /\ Len(p) = 1) =>
        out = vfs_normpath(vfs_construct_path(vfs_normpath(a), p))

C10_Witness ==
    /\ Returned
    /\ a = <<"/", "/", "/">>
    /\ p = <<P_a>>
    /\ out = P_root_a

====
